---- MODULE Spec2Model ----
(***************************************************************************)
(* A model of react/features/conference/components/web/Conference.js:      *)
(* the Conference component of the web client.                             *)
(*                                                                         *)
(* The component has four independent concerns, each with its own part of  *)
(* the state and its own specification over the module's variables:        *)
(*   SpecRender      store update -> _mapStateToProps -> render            *)
(*   SpecBackground  the ref callback _setBackground                       *)
(*   SpecThrottle    the two _.throttle wrappers made by the constructor   *)
(*   SpecLifecycle   componentDidMount/_start, componentWillUnmount and    *)
(*                   the full-screen listener                              *)
(* A specification leaves the variables of the other parts at their idle   *)
(* values.                                                                 *)
(***************************************************************************)
EXTENDS Integers, Sequences, FiniteSets, TLC

VARIABLES
    state,      \* the part of the Redux state _mapStateToProps reads
    props,      \* the props of the component: _mapStateToProps(state)
    rendered,   \* what the last render() returned
    thrown,     \* the error the last handler propagated, "none" if it returned
    lastCall,   \* the handler the last step ran, and its argument
    backgroundAlpha,  \* props._backgroundAlpha
    dom,        \* the backgrounds of #videoconference_page and of its parent
    now,        \* Date.now(), in milliseconds since the component was constructed
    showToolbarThrottle,    \* the state of the throttled _onShowToolbar
    mouseMoveThrottle,      \* the state of the throttled _onMouseMove
    showToolboxDispatches,  \* the times at which showToolbox() was dispatched
    notifyMouseMoveCalls,   \* the times at which APP.API.notifyMouseMove ran
    mobile,         \* isMobileBrowser()
    mounted,        \* between componentDidMount and componentWillUnmount
    ui,             \* what the legacy UI (APP.UI) was told
    listeners,      \* document's listeners: <<event name, callback>>
    joinProgress,   \* the conference: "idle", "connecting" or "joined"
    fullScreen,     \* APP.UI.isFullScreen()
    dispatched      \* the Redux actions dispatched through props.dispatch

renderVars == <<state, props, rendered, thrown>>
bgVars == <<backgroundAlpha, dom>>
throttleVars ==
    <<now, showToolbarThrottle, mouseMoveThrottle, showToolboxDispatches,
      notifyMouseMoveCalls, mobile>>
lifeRest == <<mounted, ui, listeners, joinProgress, fullScreen>>
lifeVars == <<lifeRest, dispatched>>

\* JavaScript's undefined.
Undefined == "<undefined>"

(***************************************************************************)
(* Rendering                                                               *)
(***************************************************************************)

\* The LAYOUTS enumeration of features/video-layout (imported, line 25).
LAYOUTS ==
    [ HORIZONTAL_FILMSTRIP_VIEW |-> "horizontal-filmstrip-view",
      TILE_VIEW                 |-> "tile-view",
      VERTICAL_FILMSTRIP_VIEW   |-> "vertical-filmstrip-view" ]

LayoutModes ==
    { LAYOUTS.HORIZONTAL_FILMSTRIP_VIEW, LAYOUTS.TILE_VIEW, LAYOUTS.VERTICAL_FILMSTRIP_VIEW }

\* A value getCurrentLayout could hand over that is no member of LAYOUTS.
UnknownLayoutValue == "stage-filmstrip-view"

\* A table with two modes sharing one class name.
LAYOUT_CLASSNAMES_Duplicated ==
    (LAYOUTS.HORIZONTAL_FILMSTRIP_VIEW :> "horizontal-filmstrip")
        @@ (LAYOUTS.TILE_VIEW :> "tile-view")
        @@ (LAYOUTS.VERTICAL_FILMSTRIP_VIEW :> "horizontal-filmstrip")

\* export const LAYOUT_CLASSNAMES = { [LAYOUTS.X]: '...' }
LAYOUT_CLASSNAMES ==
    (LAYOUTS.HORIZONTAL_FILMSTRIP_VIEW :> "horizontal-filmstrip")
        @@ (LAYOUTS.TILE_VIEW :> "tile-view")
        @@ (LAYOUTS.VERTICAL_FILMSTRIP_VIEW :> "vertical-filmstrip")

\* obj[key] of JavaScript: a missing property reads as undefined, nothing is thrown.
PropertyOf(obj, key) == IF key \in DOMAIN obj THEN obj[key] ELSE Undefined

\* The Redux state as far as the component reads it.  Each field stands for
\* the selector that reads it: getCurrentLayout, getIsLobbyVisible,
\* isPrejoinPageVisible, shouldDisplayStageFilmstrip, the toolbox feature's
\* overflowDrawer and abstractMapStateToProps' _notificationsVisible.
States ==
    [ currentLayout        : LayoutModes \cup {UnknownLayoutValue},
      lobbyVisible         : BOOLEAN,
      prejoinVisible       : BOOLEAN,
      stageFilmstrip       : BOOLEAN,
      overflowDrawer       : BOOLEAN,
      notificationsVisible : BOOLEAN ]

\* function _mapStateToProps(state)
_mapStateToProps(s) ==
    [ _notificationsVisible |-> s.notificationsVisible,
      _layoutClassName      |-> PropertyOf(LAYOUT_CLASSNAMES, s.currentLayout),
      _overflowDrawer       |-> s.overflowDrawer,
      _showLobby            |-> s.lobbyVisible,
      _showPrejoin          |-> s.prejoinVisible,
      _showStageFilmstrip   |-> s.stageFilmstrip ]

\* clsx(a, b): the truthy arguments, in order (joined by a space in the DOM).
clsx(a, b) == SelectSeq(<<a, b>>, LAMBDA c : c \notin {Undefined, "false"})

\* { _showPrejoin || _showLobby || <Toolbox /> } with the Toolbox shown under
\* prejoin as long as the lobby is not visible.
ToolboxSlot_LobbyOnly(p) == IF p._showLobby THEN {} ELSE {"Toolbox"}

\* { _showPrejoin || _showLobby || <Toolbox /> }: React renders a boolean as nothing.
ToolboxSlot(p) == IF p._showPrejoin \/ p._showLobby THEN {} ELSE {"Toolbox"}

\* The overflow drawer test inverted.
NotificationsSlot_Inverted(p) ==
    IF p._notificationsVisible
    THEN (IF p._overflowDrawer THEN "inline" ELSE "portal")
    ELSE "omitted"

\* {_notificationsVisible && (_overflowDrawer ? <JitsiPortal>...</JitsiPortal>
\*                                             : this.renderNotificationsContainer())}
NotificationsSlot(p) ==
    IF p._notificationsVisible
    THEN (IF p._overflowDrawer THEN "portal" ELSE "inline")
    ELSE "omitted"

\* <CalleeInfoContainer /> rendered only when neither prejoin nor lobby is shown.
CalleeInfoSlot_Suppressed(p) ==
    IF p._showPrejoin \/ p._showLobby THEN {} ELSE {"CalleeInfoContainer"}

\* <CalleeInfoContainer />
CalleeInfoSlot(p) == {"CalleeInfoContainer"}

\* { _showPrejoin && <Prejoin />} { _showLobby && <LobbyScreen />} with the
\* lobby screen yielding to prejoin.
ScreenSlots_Precedence(p) ==
    (IF p._showPrejoin THEN {"Prejoin"} ELSE {})
        \cup (IF p._showLobby /\ ~p._showPrejoin THEN {"LobbyScreen"} ELSE {})

\* { _showPrejoin && <Prejoin />} { _showLobby && <LobbyScreen />}
ScreenSlots(p) ==
    (IF p._showPrejoin THEN {"Prejoin"} ELSE {})
        \cup (IF p._showLobby THEN {"LobbyScreen"} ELSE {})

\* render(): the children of #videoconference_page, the placement of the
\* notifications container and the class list of #videoconference_page.
render(p) ==
    [ children |->
          {"ConferenceInfo", "Notice", "LargeVideo", "MainFilmstrip"}
              \cup (IF p._showStageFilmstrip THEN {"StageFilmstrip"} ELSE {})
              \cup ToolboxSlot(p)
              \cup CalleeInfoSlot(p)
              \cup ScreenSlots(p),
      notifications |-> NotificationsSlot(p),
      className |->
          clsx(p._layoutClassName,
               IF p._showStageFilmstrip THEN "stage-filmstrip" ELSE "false") ]

\* A store update: react-redux maps the new state to props and the component
\* renders again.  Nothing on this path throws.
StoreUpdate(s) ==
    /\ state' = s
    /\ props' = _mapStateToProps(s)
    /\ rendered' = render(_mapStateToProps(s))
    /\ thrown' = "none"
    /\ lastCall' = [op |-> "render", arg |-> ""]
    /\ UNCHANGED <<bgVars, throttleVars, lifeVars>>

SetCurrentLayout ==
    \E l \in LayoutModes \cup {UnknownLayoutValue} :
        StoreUpdate([state EXCEPT !.currentLayout = l])

SetLobbyVisible ==
    \E b \in BOOLEAN : StoreUpdate([state EXCEPT !.lobbyVisible = b])

SetPrejoinVisible ==
    \E b \in BOOLEAN : StoreUpdate([state EXCEPT !.prejoinVisible = b])

SetStageFilmstrip ==
    \E b \in BOOLEAN : StoreUpdate([state EXCEPT !.stageFilmstrip = b])

SetOverflowDrawer ==
    \E b \in BOOLEAN : StoreUpdate([state EXCEPT !.overflowDrawer = b])

SetNotificationsVisible ==
    \E b \in BOOLEAN : StoreUpdate([state EXCEPT !.notificationsVisible = b])

InitialState ==
    [ currentLayout        |-> LAYOUTS.VERTICAL_FILMSTRIP_VIEW,
      lobbyVisible         |-> FALSE,
      prejoinVisible       |-> TRUE,
      stageFilmstrip       |-> FALSE,
      overflowDrawer       |-> FALSE,
      notificationsVisible |-> FALSE ]

RenderIdle ==
    /\ state = InitialState
    /\ props = _mapStateToProps(InitialState)
    /\ rendered = render(_mapStateToProps(InitialState))
    /\ thrown = "none"


(***************************************************************************)
(* Background opacity                                                      *)
(***************************************************************************)

\* A CSS colour string, by its format: '' (empty), '#rrggbb' (hex),
\* 'rgb(r, g, b)', 'rgba(r, g, b, a)', or anything else (other: a colour name,
\* an unparseable string).  rgb is the triple the string denotes, text the
\* string itself where it denotes none, a the alpha of an rgba string.
Color(fmt, rgb, a) == [fmt |-> fmt, rgb |-> rgb, a |-> a]

EmptyColor == Color("empty", <<>>, "")
White == <<255, 255, 255>>
Grey == <<4, 4, 4>>
Black == <<0, 0, 0>>

\* The values of config.backgroundAlpha. "0" is a defined alpha.
Alphas == {"0", "0.5", "1"}

InitialColors ==
    { EmptyColor,
      Color("hex", White, ""), Color("hex", Grey, ""),
      Color("rgb", White, ""),
      Color("rgba", Grey, "0.5"),
      Color("other", <<"not-a-color">>, "") }

\* setColorAlpha(color, opacity) of features/base/util: an empty colour becomes
\* black with the opacity, a hex, rgb or rgba colour keeps its r, g, b and gets
\* the opacity, any other string is returned as it is.
setColorAlpha(color, opacity) ==
    CASE color.fmt = "empty" -> Color("rgba", Black, opacity)
      [] color.fmt \in {"hex", "rgb", "rgba"} -> Color("rgba", color.rgb, opacity)
      [] OTHER -> color

\* _setBackground(element) with the parent's colour computed from the element's.
SetBackground_ParentFromElement(element) ==
    /\ lastCall' = [op |-> "_setBackground", arg |-> element]
    /\ IF element = "null"
       THEN dom' = dom
       ELSE IF backgroundAlpha # Undefined
            THEN dom' = [dom EXCEPT
                     !.elemBg = setColorAlpha(dom.elemBg, backgroundAlpha),
                     !.parentBg = IF dom.hasParent
                                  THEN setColorAlpha(dom.elemBg, backgroundAlpha)
                                  ELSE @]
            ELSE dom' = dom
    /\ UNCHANGED backgroundAlpha

\* _setBackground(element): the ref callback of #videoconference_page.  React
\* calls it with the element when it is attached and with null when detached.
SetBackground(element) ==
    /\ lastCall' = [op |-> "_setBackground", arg |-> element]
    /\ IF element = "null"
       THEN dom' = dom
       ELSE IF backgroundAlpha # Undefined
            THEN dom' = [dom EXCEPT
                     !.elemBg = setColorAlpha(dom.elemBg, backgroundAlpha),
                     !.parentBg = IF dom.hasParent
                                  THEN setColorAlpha(dom.parentBg, backgroundAlpha)
                                  ELSE @]
            ELSE dom' = dom
    /\ UNCHANGED backgroundAlpha

RefAttached == SetBackground("element") /\ UNCHANGED <<renderVars, throttleVars, lifeVars>>

RefDetached == SetBackground("null") /\ UNCHANGED <<renderVars, throttleVars, lifeVars>>

\* config.backgroundAlpha changes in the store: _mapStateToProps hands the new
\* value over as _backgroundAlpha; the ref callback is not called again.
BackgroundAlphaChanged ==
    /\ \E a \in Alphas \cup {Undefined} : backgroundAlpha' = a
    /\ lastCall' = [op |-> "_mapStateToProps", arg |-> "backgroundAlpha"]
    /\ UNCHANGED <<dom, renderVars, throttleVars, lifeVars>>

NoCall == [op |-> "none", arg |-> ""]

BgInit ==
    /\ backgroundAlpha \in Alphas \cup {Undefined}
    /\ \E e \in InitialColors, par \in InitialColors, hp \in BOOLEAN :
           dom = [elemBg |-> e, hasParent |-> hp,
                  parentBg |-> IF hp THEN par ELSE EmptyColor]

BgIdle ==
    /\ backgroundAlpha = Undefined
    /\ dom = [elemBg |-> EmptyColor, hasParent |-> TRUE, parentBg |-> EmptyColor]

BgNext ==
    \/ RefAttached
    \/ RefDetached
    \/ BackgroundAlphaChanged

(***************************************************************************)
(* The throttled handlers                                                  *)
(***************************************************************************)

\* The clock stops here.
MaxTime == 300

\* A handler's log holds at most this many invocations.
MaxCalls == 4

\* How far the clock moves between two steps of the event loop.
TickSteps == {50, 100}

\* The wait of the show-toolbar throttle.
ShowToolbarWait == 100

\* The values of config.mouseMoveCallbackInterval (lodash reads a missing
\* one as 0).
MouseMoveIntervals == {0, 50, 150}

\* lastCallTime and timerId before they are set.
NoTime == 0 - 1

Min(a, b) == IF a <= b THEN a ELSE b

Last(s) == s[Len(s)]

\* { leading: true } alone: lodash's trailing edge stays on.
ShowToolbarOptions_TrailingDefault == [leading |-> TRUE, trailing |-> TRUE]

\* The options of the show-toolbar throttle.
ShowToolbarOptions == [leading |-> TRUE, trailing |-> FALSE]

\* The options of the mouse-move throttle.
MouseMoveOptions == [leading |-> TRUE, trailing |-> FALSE]

\* _.throttle(func, wait, options) = debounce(func, wait, { leading, trailing,
\* maxWait: wait }): the state of a new wrapper.
Throttle(wait, options) ==
    [ wait           |-> wait,
      leading        |-> options.leading,
      trailing       |-> options.trailing,
      lastCallTime   |-> NoTime,
      lastInvokeTime |-> 0,
      timerId        |-> NoTime,    \* the time the pending timer is due
      lastArgs       |-> FALSE ]    \* whether a call waits for the trailing edge

\* shouldInvoke(time), with maxing and maxWait = wait.
shouldInvoke(th, time) ==
    \/ th.lastCallTime = NoTime
    \/ time - th.lastCallTime >= th.wait
    \/ time - th.lastCallTime < 0
    \/ time - th.lastInvokeTime >= th.wait

\* remainingWait(time), with maxing and maxWait = wait.
remainingWait(th, time) ==
    Min(th.wait - (time - th.lastCallTime), th.wait - (time - th.lastInvokeTime))

\* invokeFunc(time)
invokeFunc(th, time) == [th EXCEPT !.lastArgs = FALSE, !.lastInvokeTime = time]

\* debounced(...args) at `time`: the wrapper's next state, and whether func ran.
debounced(th, time) ==
    LET isInvoking == shouldInvoke(th, time)
        called == [th EXCEPT !.lastArgs = TRUE, !.lastCallTime = time]
        armed == [called EXCEPT !.timerId = time + th.wait]
    IN  IF isInvoking /\ th.timerId = NoTime
        THEN \* leadingEdge(lastCallTime)
             IF th.leading
             THEN [th |-> invokeFunc(armed, time), invoked |-> TRUE]
             ELSE [th |-> [armed EXCEPT !.lastInvokeTime = time], invoked |-> FALSE]
        ELSE IF isInvoking
        THEN \* maxing: the timer is started again and func invoked
             [th |-> invokeFunc(armed, time), invoked |-> TRUE]
        ELSE IF th.timerId = NoTime
        THEN [th |-> armed, invoked |-> FALSE]
        ELSE [th |-> called, invoked |-> FALSE]

\* timerExpired() at `time`: trailingEdge(time), or the timer started again.
timerExpired(th, time) ==
    IF shouldInvoke(th, time)
    THEN IF th.trailing /\ th.lastArgs
         THEN [th |-> invokeFunc([th EXCEPT !.timerId = NoTime], time), invoked |-> TRUE]
         ELSE [th |-> [th EXCEPT !.timerId = NoTime, !.lastArgs = FALSE],
               invoked |-> FALSE]
    ELSE [th |-> [th EXCEPT !.timerId = time + remainingWait(th, time)],
          invoked |-> FALSE]

\* The throttled _onShowToolbar is called (or, with called false, is not):
\* when the wrapper lets the call through, _originalOnShowToolbar runs
\* this.props.dispatch(showToolbox()).
ShowToolbarCall(called) ==
    IF called
    THEN LET r == debounced(showToolbarThrottle, now)
         IN  /\ showToolbarThrottle' = r.th
             /\ showToolboxDispatches' =
                    IF r.invoked THEN Append(showToolboxDispatches, now)
                    ELSE showToolboxDispatches
             /\ dispatched' =
                    IF r.invoked THEN Append(dispatched, "showToolbox") ELSE dispatched
    ELSE UNCHANGED <<showToolbarThrottle, showToolboxDispatches, dispatched>>

\* The throttled _onMouseMove is called: when the wrapper lets the call
\* through, _originalOnMouseMove runs APP.API.notifyMouseMove(event).
MouseMoveCall ==
    LET r == debounced(mouseMoveThrottle, now)
    IN  /\ mouseMoveThrottle' = r.th
        /\ notifyMouseMoveCalls' =
               IF r.invoked THEN Append(notifyMouseMoveCalls, now)
               ELSE notifyMouseMoveCalls

\* onMouseMove = { isMobileBrowser() ? undefined : this._onShowToolbar }
PageOnMouseMove == IF mobile THEN Undefined ELSE "_onShowToolbar"

\* A mousemove on #videoconference_page: its own onMouseMove handler, if it
\* has one, and then, the event bubbling, the one of #layout_wrapper.
MouseMoveOnPage ==
    /\ Len(showToolboxDispatches) < MaxCalls
    /\ Len(notifyMouseMoveCalls) < MaxCalls
    /\ ShowToolbarCall(PageOnMouseMove # Undefined)
    /\ MouseMoveCall
    /\ lastCall' = [op |-> "mousemove", arg |-> "videoconference_page"]
    /\ UNCHANGED <<now, mobile, renderVars, bgVars, lifeRest>>

\* A mousemove inside #layout_wrapper but outside #videoconference_page (on
\* the chat or the participants pane): the onMouseMove handler of
\* #layout_wrapper alone.
MouseMoveOnWrapper ==
    /\ Len(notifyMouseMoveCalls) < MaxCalls
    /\ ShowToolbarCall(FALSE)
    /\ MouseMoveCall
    /\ lastCall' = [op |-> "mousemove", arg |-> "layout_wrapper"]
    /\ UNCHANGED <<now, mobile, renderVars, bgVars, lifeRest>>

\* The timer of the show-toolbar throttle fires, at or after its due time.
ShowToolbarTimer ==
    /\ showToolbarThrottle.timerId # NoTime
    /\ now >= showToolbarThrottle.timerId
    /\ LET r == timerExpired(showToolbarThrottle, now)
       IN  /\ showToolbarThrottle' = r.th
           /\ showToolboxDispatches' =
                  IF r.invoked THEN Append(showToolboxDispatches, now)
                  ELSE showToolboxDispatches
           /\ dispatched' =
                  IF r.invoked THEN Append(dispatched, "showToolbox") ELSE dispatched
    /\ lastCall' = [op |-> "timerExpired", arg |-> "_onShowToolbar"]
    /\ UNCHANGED <<now, mobile, mouseMoveThrottle, notifyMouseMoveCalls, renderVars,
                   bgVars, lifeRest>>

\* The timer of the mouse-move throttle fires, at or after its due time.
MouseMoveTimer ==
    /\ mouseMoveThrottle.timerId # NoTime
    /\ now >= mouseMoveThrottle.timerId
    /\ LET r == timerExpired(mouseMoveThrottle, now)
       IN  /\ mouseMoveThrottle' = r.th
           /\ notifyMouseMoveCalls' =
                  IF r.invoked THEN Append(notifyMouseMoveCalls, now)
                  ELSE notifyMouseMoveCalls
    /\ lastCall' = [op |-> "timerExpired", arg |-> "_onMouseMove"]
    /\ UNCHANGED <<now, mobile, showToolbarThrottle, showToolboxDispatches,
                   renderVars, bgVars, lifeVars>>

\* Time passes.
Tick ==
    /\ \E d \in TickSteps : now + d <= MaxTime /\ now' = now + d
    /\ lastCall' = [op |-> "tick", arg |-> ""]
    /\ UNCHANGED <<mobile, showToolbarThrottle, mouseMoveThrottle,
                   showToolboxDispatches, notifyMouseMoveCalls, renderVars, bgVars,
                   lifeVars>>

\* constructor(props): the two wrappers, the mouse-move one with
\* props._mouseMoveCallbackInterval as its wait.
ThrottleInit ==
    /\ now = 0
    /\ showToolbarThrottle = Throttle(ShowToolbarWait, ShowToolbarOptions)
    /\ \E i \in MouseMoveIntervals : mouseMoveThrottle = Throttle(i, MouseMoveOptions)
    /\ showToolboxDispatches = <<>>
    /\ notifyMouseMoveCalls = <<>>
    /\ mobile \in BOOLEAN

ThrottleIdle ==
    /\ now = 0
    /\ showToolbarThrottle = Throttle(ShowToolbarWait, ShowToolbarOptions)
    /\ mouseMoveThrottle = Throttle(0, MouseMoveOptions)
    /\ showToolboxDispatches = <<>>
    /\ notifyMouseMoveCalls = <<>>
    /\ mobile = FALSE

ThrottleNext ==
    \/ MouseMoveOnPage
    \/ MouseMoveOnWrapper
    \/ ShowToolbarTimer
    \/ MouseMoveTimer
    \/ Tick

(***************************************************************************)
(* Mounting, unmounting and the full-screen listener                       *)
(***************************************************************************)

\* The log of dispatched actions holds at most this many.
MaxDispatched == 4

FULL_SCREEN_EVENTS == {"webkitfullscreenchange", "mozfullscreenchange", "fullscreenchange"}

\* this._onFullScreenChange after the constructor's bind: one function object
\* for the life of the instance.
BoundOnFullScreenChange == "this._onFullScreenChange"

\* FULL_SCREEN_EVENTS.forEach(name => document.addEventListener(name, callback)):
\* a listener already in the list is not added again.
addEventListeners(l, callback) ==
    l \cup { <<name, callback>> : name \in FULL_SCREEN_EVENTS }

\* FULL_SCREEN_EVENTS.forEach(name => document.removeEventListener(name, callback)):
\* removes that very callback, where listed.
removeEventListeners(l, callback) ==
    l \ { <<name, callback>> : name \in FULL_SCREEN_EVENTS }

\* APP.conference.isJoined()
isJoined == joinProgress = "joined"

\* _start(): the legacy UI is started and bound, the full-screen listener is
\* added for every event name, connect() is dispatched, and
\* maybeShowSuboptimalExperienceNotification(dispatch, t) is handed dispatch,
\* with which it may show a notification.
_start ==
    /\ ui' = [started |-> TRUE, listenersRegistered |-> TRUE, eventsBound |-> TRUE]
    /\ listeners' = addEventListeners(listeners, BoundOnFullScreenChange)
    /\ \E suboptimal \in BOOLEAN :
           dispatched' =
               IF suboptimal
               THEN dispatched \o <<"connect", "showNotification">>
               ELSE Append(dispatched, "connect")
    /\ joinProgress' = IF joinProgress = "idle" THEN "connecting" ELSE joinProgress

\* componentDidMount(): sets document.title and calls _start().
ComponentDidMount ==
    /\ ~mounted
    /\ Len(dispatched) + 1 < MaxDispatched
    /\ mounted' = TRUE
    /\ _start
    /\ lastCall' = [op |-> "componentDidMount", arg |-> ""]
    /\ UNCHANGED <<fullScreen, renderVars, bgVars, throttleVars>>

\* componentWillUnmount() removing a callback bound anew, which is not the one
\* that was added.
ComponentWillUnmount_FreshBind ==
    /\ mounted
    /\ Len(dispatched) < MaxDispatched
    /\ mounted' = FALSE
    /\ ui' = [ui EXCEPT !.eventsBound = FALSE]
    /\ listeners' = removeEventListeners(listeners, "this._onFullScreenChange.bind(this)")
    /\ IF isJoined
       THEN /\ dispatched' = Append(dispatched, "disconnect")
            /\ joinProgress' = "idle"
       ELSE UNCHANGED <<dispatched, joinProgress>>
    /\ lastCall' = [op |-> "componentWillUnmount", arg |-> ""]
    /\ UNCHANGED <<fullScreen, renderVars, bgVars, throttleVars>>

\* componentWillUnmount(): APP.UI.unbindEvents(), the listener removed for
\* every event name, and disconnect() dispatched if the conference is joined.
ComponentWillUnmount ==
    /\ mounted
    /\ Len(dispatched) < MaxDispatched
    /\ mounted' = FALSE
    /\ ui' = [ui EXCEPT !.eventsBound = FALSE]
    /\ listeners' = removeEventListeners(listeners, BoundOnFullScreenChange)
    /\ IF isJoined
       THEN /\ dispatched' = Append(dispatched, "disconnect")
            /\ joinProgress' = "idle"
       ELSE UNCHANGED <<dispatched, joinProgress>>
    /\ lastCall' = [op |-> "componentWillUnmount", arg |-> ""]
    /\ UNCHANGED <<fullScreen, renderVars, bgVars, throttleVars>>

\* _onFullScreenChange(): dispatch(fullScreenChanged(APP.UI.isFullScreen())).
\* The browser changes the full-screen mode and fires one of the event names
\* on document, which calls every callback listed for it.
FullScreenChange ==
    /\ Len(dispatched) < MaxDispatched
    /\ fullScreen' = ~fullScreen
    /\ \E name \in FULL_SCREEN_EVENTS :
           /\ dispatched' =
                  IF \E l \in listeners : l[1] = name
                  THEN Append(dispatched,
                              IF fullScreen' THEN "fullScreenChanged(true)"
                              ELSE "fullScreenChanged(false)")
                  ELSE dispatched
           /\ lastCall' = [op |-> "fullscreenchange", arg |-> name]
    /\ UNCHANGED <<mounted, ui, listeners, joinProgress, renderVars, bgVars,
                   throttleVars>>

\* _onVidespaceTouchStart(): a touchstart on #videospace, which is in the
\* document while the component is mounted.
VidespaceTouchStart ==
    /\ mounted
    /\ Len(dispatched) < MaxDispatched
    /\ dispatched' = Append(dispatched, "toggleToolboxVisible")
    /\ lastCall' = [op |-> "_onVidespaceTouchStart", arg |-> ""]
    /\ UNCHANGED <<lifeRest, renderVars, bgVars, throttleVars>>

\* The connection that connect() started has joined the conference.
ConferenceJoined ==
    /\ joinProgress = "connecting"
    /\ joinProgress' = "joined"
    /\ lastCall' = [op |-> "conferenceJoined", arg |-> ""]
    /\ UNCHANGED <<mounted, ui, listeners, fullScreen, dispatched, renderVars,
                   bgVars, throttleVars>>

\* The instance after its constructor, before it is mounted.
LifeIdle ==
    /\ mounted = FALSE
    /\ ui = [started |-> FALSE, listenersRegistered |-> FALSE, eventsBound |-> FALSE]
    /\ listeners = {}
    /\ joinProgress = "idle"
    /\ fullScreen = FALSE
    /\ dispatched = <<>>

LifeNext ==
    \/ ComponentDidMount
    \/ ComponentWillUnmount
    \/ FullScreenChange
    \/ VidespaceTouchStart
    \/ ConferenceJoined

RenderNext ==
    \/ SetCurrentLayout
    \/ SetLobbyVisible
    \/ SetPrejoinVisible
    \/ SetStageFilmstrip
    \/ SetOverflowDrawer
    \/ SetNotificationsVisible

vars == <<renderVars, lastCall, bgVars, throttleVars, lifeVars>>

InitRender ==
    /\ RenderIdle
    /\ lastCall = NoCall
    /\ BgIdle
    /\ ThrottleIdle
    /\ LifeIdle

InitBackground ==
    /\ RenderIdle
    /\ lastCall = NoCall
    /\ BgInit
    /\ ThrottleIdle
    /\ LifeIdle

InitLifecycle ==
    /\ RenderIdle
    /\ lastCall = NoCall
    /\ BgIdle
    /\ ThrottleIdle
    /\ LifeIdle

InitThrottle ==
    /\ RenderIdle
    /\ lastCall = NoCall
    /\ BgIdle
    /\ ThrottleInit
    /\ LifeIdle

SpecRender == InitRender /\ [][RenderNext]_vars

SpecBackground == InitBackground /\ [][BgNext]_vars

SpecThrottle == InitThrottle /\ [][ThrottleNext]_vars

SpecLifecycle == InitLifecycle /\ [][LifeNext]_vars

(***************************************************************************)
(* Claims about rendering (SpecRender)                                     *)
(***************************************************************************)

PrimaryScreens == rendered.children \cap {"Prejoin", "LobbyScreen", "Toolbox"}

\* C1 (as claimed): exactly one of Prejoin, LobbyScreen and Toolbox is
\* rendered, chosen by the precedence Prejoin > Lobby > MainConference.
C1_ExactlyOnePrimaryScreen ==
    PrimaryScreens =
        IF state.prejoinVisible THEN {"Prejoin"}
        ELSE IF state.lobbyVisible THEN {"LobbyScreen"}
        ELSE {"Toolbox"}

\* C1 (amended): Prejoin is rendered iff prejoin is visible, LobbyScreen iff
\* the lobby is visible, independently of each other, and the Toolbox iff
\* neither is; so exactly one of the three is rendered unless both flags are
\* set, and then Prejoin and LobbyScreen are both rendered.
C1_PrimaryScreensIndependent ==
    /\ ("Prejoin" \in rendered.children) <=> state.prejoinVisible
    /\ ("LobbyScreen" \in rendered.children) <=> state.lobbyVisible
    /\ ("Toolbox" \in rendered.children)
           <=> (~state.prejoinVisible /\ ~state.lobbyVisible)
    /\ ~(state.prejoinVisible /\ state.lobbyVisible) => Cardinality(PrimaryScreens) = 1
    /\ (state.prejoinVisible /\ state.lobbyVisible)
           => PrimaryScreens = {"Prejoin", "LobbyScreen"}

C1_Witness ==
    /\ state.prejoinVisible
    /\ state.lobbyVisible
    /\ PrimaryScreens = {"Prejoin", "LobbyScreen"}

\* C2: the Toolbox is rendered if and only if neither the prejoin screen nor
\* the lobby screen is visible.
C2_ToolboxIffNeither ==
    ("Toolbox" \in rendered.children) <=> ~(props._showPrejoin \/ props._showLobby)

C2_Witness ==
    /\ props._showPrejoin
    /\ ~props._showLobby
    /\ "Toolbox" \notin rendered.children

\* C3 (as claimed): the CalleeInfoContainer is not rendered whenever the
\* prejoin screen or the lobby screen is shown.
C3_CalleeInfoSuppressed ==
    (state.prejoinVisible \/ state.lobbyVisible)
        => "CalleeInfoContainer" \notin rendered.children

\* C3 (amended): render() renders the CalleeInfoContainer element in every
\* state, also while the prejoin screen or the lobby screen is shown; only the
\* Toolbox is suppressed then.
C3_CalleeInfoAlwaysRendered ==
    /\ "CalleeInfoContainer" \in rendered.children
    /\ (state.prejoinVisible \/ state.lobbyVisible) => "Toolbox" \notin rendered.children

C3_Witness ==
    /\ state.lobbyVisible
    /\ ~state.prejoinVisible
    /\ "CalleeInfoContainer" \in rendered.children
    /\ "LobbyScreen" \in rendered.children

\* C4: the notifications container is in the portal when the overflow drawer
\* is enabled and notifications are visible, inline when notifications are
\* visible and the drawer is not enabled, and omitted when notifications are
\* not visible, whatever the drawer.
C4_NotificationPlacement ==
    /\ (state.overflowDrawer /\ state.notificationsVisible)
           => rendered.notifications = "portal"
    /\ (~state.overflowDrawer /\ state.notificationsVisible)
           => rendered.notifications = "inline"
    /\ ~state.notificationsVisible => rendered.notifications = "omitted"

C4_Witness ==
    /\ state.overflowDrawer
    /\ state.notificationsVisible
    /\ rendered.notifications = "portal"

\* C5: the layout class name is decided by the layout mode alone:
\* horizontal-filmstrip, tile-view and vertical-filmstrip, pairwise distinct
\* and non-empty, whatever the session flags and UI preferences are.
C5_LayoutClassName ==
    /\ state.currentLayout = LAYOUTS.HORIZONTAL_FILMSTRIP_VIEW
           => props._layoutClassName = "horizontal-filmstrip"
    /\ state.currentLayout = LAYOUTS.TILE_VIEW
           => props._layoutClassName = "tile-view"
    /\ state.currentLayout = LAYOUTS.VERTICAL_FILMSTRIP_VIEW
           => props._layoutClassName = "vertical-filmstrip"
    /\ state.currentLayout \in LayoutModes
           => /\ props._layoutClassName \notin {"", Undefined}
              /\ rendered.className[1] = props._layoutClassName
    /\ Cardinality({ PropertyOf(LAYOUT_CLASSNAMES, m) : m \in LayoutModes })
           = Cardinality(LayoutModes)

C5_Witness ==
    /\ state.currentLayout = LAYOUTS.VERTICAL_FILMSTRIP_VIEW
    /\ state.lobbyVisible
    /\ state.overflowDrawer
    /\ props._layoutClassName = "vertical-filmstrip"

\* C6 (as claimed): a layout outside the three enumerated modes makes the
\* derivation of the class name fail with UnknownLayout, and no view model
\* with an undefined class name is produced.
C6_UnknownLayoutFails ==
    state.currentLayout \notin LayoutModes
        => /\ thrown = "UnknownLayout"
           /\ props._layoutClassName # Undefined

(***************************************************************************)
(* Claims about the background opacity (SpecBackground)                    *)
(***************************************************************************)

\* C7: when _setBackground runs with an element and backgroundAlpha is
\* defined, the element's background and, if it has a parent, the parent's
\* background each become the alpha-adjusted version of their own previous
\* value; when backgroundAlpha is undefined or the element is null, neither
\* background is modified.
C7_BackgroundApplied ==
    [][ lastCall'.op = "_setBackground" =>
            IF lastCall'.arg = "element" /\ backgroundAlpha # Undefined
            THEN /\ dom'.elemBg = setColorAlpha(dom.elemBg, backgroundAlpha)
                 /\ dom'.hasParent = dom.hasParent
                 /\ dom.hasParent
                        => dom'.parentBg = setColorAlpha(dom.parentBg, backgroundAlpha)
                 /\ ~dom.hasParent => dom'.parentBg = dom.parentBg
            ELSE dom' = dom ]_vars

C7_Witness ==
    /\ lastCall = [op |-> "_setBackground", arg |-> "element"]
    /\ backgroundAlpha = "0"
    /\ dom.hasParent
    /\ dom.elemBg = Color("rgba", White, "0")
    /\ dom.parentBg = Color("rgba", Grey, "0")

(***************************************************************************)
(* Claims about the throttled handlers (SpecThrottle)                      *)
(***************************************************************************)

\* For one handler, with log `calls` before and `calls2` after a step,
\* `called` whether the step is an event that calls the throttled handler and
\* `wait` its interval: the handler runs only in a step of such an event and
\* at the time of the event (never from a timer, so no trailing invocation),
\* two runs are at least `wait` apart, an event that comes when no run was
\* made within the last `wait` runs the handler at once, and an event within
\* `wait` of the last run is dropped.
LeadingEdgeLimited(calls, calls2, called, wait) ==
    LET open == Len(calls) = 0 \/ now - Last(calls) >= wait
    IN  /\ calls2 # calls =>
               /\ called
               /\ calls2 = Append(calls, now)
               /\ open
        /\ (called /\ open) => calls2 = Append(calls, now)
        /\ (called /\ ~open) => calls2 = calls

\* C8: the show-toolbar and mouse-move handlers are leading-edge rate
\* limited: the first event of a window invokes the handler immediately,
\* further events within the interval (100 ms, resp. the mouse-move
\* interval) are dropped, no trailing invocation is made, and the handler
\* runs at most once per interval.  The events of the show-toolbar handler
\* are the mousemoves on #videoconference_page of a browser that is not
\* mobile (where the handler is attached), those of the mouse-move handler
\* every mousemove inside #layout_wrapper.
C8_LeadingEdgeRateLimit ==
    [][ /\ LeadingEdgeLimited(showToolboxDispatches, showToolboxDispatches',
                              /\ lastCall'.op = "mousemove"
                              /\ lastCall'.arg = "videoconference_page"
                              /\ ~mobile,
                              ShowToolbarWait)
        /\ (Len(showToolboxDispatches') > Len(showToolboxDispatches))
               <=> (dispatched' = Append(dispatched, "showToolbox"))
        /\ LeadingEdgeLimited(notifyMouseMoveCalls, notifyMouseMoveCalls',
                              lastCall'.op = "mousemove",
                              mouseMoveThrottle.wait) ]_vars

\* Two show-toolbar runs 100 ms apart, a later event that was dropped, and the
\* timer of that window expired with nothing run; the mouse-move handler was
\* limited as well.
C8_Witness ==
    /\ ~mobile
    /\ lastCall.op = "timerExpired"
    /\ showToolboxDispatches = <<0, 100>>
    /\ dispatched = <<"showToolbox", "showToolbox">>
    /\ showToolbarThrottle.lastCallTime = 150
    /\ showToolbarThrottle.timerId = NoTime
    /\ now = 200
    /\ mouseMoveThrottle.wait = 150
    /\ notifyMouseMoveCalls = <<0, 150>>
    /\ mouseMoveThrottle.lastCallTime = 200

(***************************************************************************)
(* Claims about mounting and unmounting (SpecLifecycle)                    *)
(***************************************************************************)

\* C9 (as claimed): componentWillUnmount dispatches disconnect(), whatever
\* the join progress of the conference at the moment of unmount.
C9_UnmountDisconnects ==
    [][ lastCall'.op = "componentWillUnmount"
            => dispatched' = Append(dispatched, "disconnect") ]_vars

AllFullScreenListeners ==
    { <<name, BoundOnFullScreenChange>> : name \in FULL_SCREEN_EVENTS }

\* C10: the full-screen listener is registered for all three event names and
\* the legacy UI events are bound exactly while the component is mounted;
\* after unmount no full-screen listener remains, and a full-screen change
\* while unmounted dispatches nothing.
C10_RegistrationsBalanced ==
    [][ /\ mounted' => (listeners' = AllFullScreenListeners /\ ui'.eventsBound)
        /\ ~mounted' => (listeners' = {} /\ ~ui'.eventsBound)
        /\ (lastCall'.op = "componentWillUnmount") => (~mounted' /\ listeners' = {})
        /\ (~mounted /\ lastCall'.op = "fullscreenchange") => dispatched' = dispatched
        /\ (mounted /\ lastCall'.op = "fullscreenchange")
               => /\ Len(dispatched') = Len(dispatched) + 1
                  /\ Last(dispatched') \in {"fullScreenChanged(true)",
                                            "fullScreenChanged(false)"} ]_vars

\* Mounted, unmounted, mounted and unmounted again, and then a full-screen
\* change that dispatched nothing.
C10_Witness ==
    /\ ~mounted
    /\ listeners = {}
    /\ lastCall.op = "fullscreenchange"
    /\ fullScreen
    /\ dispatched = <<"connect", "connect">>

====
